---------------------------- MODULE Spec2Model ----------------------------
(***************************************************************************)
(* State-machine model of src/inputsystem/joystick_sdl.cpp: the SDL        *)
(* gamepad back end of CInputSystem (device hotplug, single active device, *)
(* event translation, rumble).                                             *)
(*                                                                         *)
(* The program state is a record s; every C++ function is an operator from *)
(* states to states, so that nested calls (JoystickHotplugAdded calling    *)
(* JoystickHotplugRemoved, the watcher calling SearchForDevice, ...) are   *)
(* operator applications and one TLA+ action is one whole entry point.     *)
(* The SDL device layer is modelled by what the calls used here do:        *)
(* enumeration, recognition, open/close of handles, haptic commands.       *)
(***************************************************************************)
EXTENDS Integers, Sequences, FiniteSets, TLC

(***************************************************************************)
(* Bounds of the model.                                                    *)
(***************************************************************************)
\* Device ids the device layer hands out: 1..MaxDevices (0 is never an id).
MaxDevices == 2
\* Cap on key.repeats (the code increments it without limit).
MaxRepeats == 2
\* Cap on the number of joystick handles open at once (sdl.joyRefs).
MaxJoyRefs == 2
\* Number of trigger samples fed in the trigger-sequence specification.
MaxFeed == 6
\* Number of axis samples fed in the axis-sequence specification.
MaxAxisFeed == 4

(***************************************************************************)
(* Program constants.                                                      *)
(***************************************************************************)
\* joy_active default, and the "no device" value of m_nDeviceId.
NoDevice == -1
\* SDL_GAMEPAD_BUTTON_MAX, the value m_nButtonCount gets on open.
SDL_GAMEPAD_BUTTON_MAX == 21
\* Axis range: the factor in "GetFloat() * 32767".
AxisRange == 32767
\* joy_axisbutton_threshold default "0.3", in thousandths.
joy_axisbutton_threshold == 300
\* joy_axis_deadzone default "0.2", in thousandths.
joy_axis_deadzone == 200
\* The 0.01f of SetXDeviceRumble, in units of 1/2000 (see Strength).
RumbleEpsilon == 20

NULL == 0

Devices == 1..MaxDevices

\* SDL_GamepadAxis values.
SDL_GAMEPAD_AXIS_LEFTX == 0
SDL_GAMEPAD_AXIS_LEFTY == 1
SDL_GAMEPAD_AXIS_RIGHTX == 2
SDL_GAMEPAD_AXIS_RIGHTY == 3
SDL_GAMEPAD_AXIS_LEFT_TRIGGER == 4
SDL_GAMEPAD_AXIS_RIGHT_TRIGGER == 5

\* Host codes, kept symbolic.
BUTTON_CODE_NONE == "BUTTON_CODE_NONE"
ANALOG_CODE_INVALID == "ANALOG_CODE_INVALID"
KEY_XBUTTON_LTRIGGER == "KEY_XBUTTON_LTRIGGER"
KEY_XBUTTON_RTRIGGER == "KEY_XBUTTON_RTRIGGER"
AnalogCodes == {"JOY_AXIS_X", "JOY_AXIS_Y", "JOY_AXIS_U", "JOY_AXIS_R", "JOY_AXIS_Z"}

(***************************************************************************)
(* What a device is to the device layer.  "pad": a recognized gamepad that *)
(* opens.  "joy": a joystick with no controller mapping (SDL_IsGamepad is  *)
(* false) that opens as a joystick.  "noopen": recognized, SDL_OpenJoystick*)
(* fails.  "nopad": recognized, opens as a joystick, SDL_OpenGamepad fails.*)
(***************************************************************************)
Kinds == {"pad", "joy", "noopen", "nopad"}

VARIABLES
    info,      \* m_pJoystickInfo[0]
    sys,       \* the other CInputSystem members used here
    cvar,      \* joy_active, joy_gamecontroller_config, joystick, ...
    sdl,       \* the device layer: subsystem, watcher, open handles
    input,     \* m_appXKeys[0][..].repeats and m_pAnalogValue
    status,    \* per device id: "fresh", "attached" or "gone"
    kind,      \* per device id: its Kind (fixed)
    nojoy,     \* the -nojoy command line flag (fixed)
    out,       \* what the last entry point did: device-layer calls, host events
    last,      \* which entry point ran last, with what, from which state
    was,       \* the entry point before that, where two calls in a row matter
    startup,   \* the outcome of the first completed startup since process start
    feed       \* the trigger samples fed so far and the events each produced

vars == <<info, sys, cvar, sdl, input, status, kind, nojoy, out, last, was, startup, feed>>

(***************************************************************************)
(* The state record the operators work on.                                 *)
(***************************************************************************)
EmptyOut == [calls |-> <<>>, events |-> <<>>, atOpen |-> <<>>]

S == [info |-> info, sys |-> sys, cvar |-> cvar, sdl |-> sdl, input |-> input,
      status |-> status, out |-> EmptyOut]

Commit(t) ==
    /\ info' = t.info
    /\ sys' = t.sys
    /\ cvar' = t.cvar
    /\ sdl' = t.sdl
    /\ input' = t.input
    /\ status' = t.status
    /\ out' = t.out

Call(s, fn, arg) ==
    [s EXCEPT !.out.calls = Append(@, [fn |-> fn, arg |-> arg])]

Post(s, type, code, value) ==
    [s EXCEPT !.out.events = Append(@, [type |-> type, code |-> code, value |-> value])]

(***************************************************************************)
(* The device layer.                                                       *)
(***************************************************************************)
\* SDL_GetJoysticks: the attached devices in id order; none while the
\* subsystem is not initialized.
RECURSIVE AscendingFrom(_, _)
AscendingFrom(set, n) ==
    IF n > MaxDevices THEN <<>>
    ELSE IF n \in set THEN <<n>> \o AscendingFrom(set, n + 1)
    ELSE AscendingFrom(set, n + 1)

Attached(s) == {d \in Devices : s.status[d] = "attached"}

SDL_GetJoysticks(s) ==
    IF s.sdl.init THEN AscendingFrom(Attached(s), 1) ELSE <<>>

\* SDL_IsGamepad(id): id names an attached device with a controller mapping.
SDL_IsGamepad(s, id) ==
    /\ s.sdl.init
    /\ id \in Attached(s)
    /\ kind[id] # "joy"

\* Whether SDL_OpenJoystick(id) returns a handle.
JoystickOpens(s, id) ==
    /\ s.sdl.init
    /\ id \in Attached(s)
    /\ kind[id] # "noopen"

\* Whether SDL_OpenGamepad(id) returns a handle.
GamepadOpens(s, id) ==
    /\ s.sdl.init
    /\ id \in Attached(s)
    /\ kind[id] = "pad"

SDL_OpenJoystick(s, id) ==
    IF JoystickOpens(s, id)
    THEN Call([s EXCEPT !.sdl.joyRefs = @ + 1], "SDL_OpenJoystick", id)
    ELSE Call(s, "SDL_OpenJoystick", id)

SDL_CloseJoystick(s, id) ==
    Call([s EXCEPT !.sdl.joyRefs = @ - 1], "SDL_CloseJoystick", id)

\* SDL_OpenGamepad: records, for each attempt, what was open at that moment.
SDL_OpenGamepad(s, id) ==
    LET snap == [id |-> id, pads |-> s.sdl.pads, haptics |-> s.sdl.haptics,
                 info |-> s.info]
        t == Call([s EXCEPT !.out.atOpen = Append(@, snap)], "SDL_OpenGamepad", id)
    IN IF GamepadOpens(s, id)
       THEN [t EXCEPT !.sdl.pads = @ \cup {id}]
       ELSE t

SDL_CloseGamepad(s, pad) ==
    Call([s EXCEPT !.sdl.pads = @ \ {pad}], "SDL_CloseGamepad", pad)

SDL_OpenHapticFromJoystick(s, id) ==
    Call([s EXCEPT !.sdl.haptics = @ \cup {id}], "SDL_OpenHapticFromJoystick", id)

\* SDL_CloseHaptic(NULL) is a call that closes nothing.
SDL_CloseHaptic(s, haptic) ==
    Call([s EXCEPT !.sdl.haptics = @ \ {haptic}], "SDL_CloseHaptic", haptic)


\* SDL_QuitSubSystem tears the subsystem down with every handle it gave out.
SDL_QuitSubSystem(s) ==
    Call([s EXCEPT !.sdl.init = FALSE, !.sdl.pads = {}, !.sdl.haptics = {},
                   !.sdl.joyRefs = 0],
         "SDL_QuitSubSystem", 0)

\* SDL_InitSubSystem succeeding.
SDL_InitSubSystem(s) ==
    Call([s EXCEPT !.sdl.init = TRUE], "SDL_InitSubSystem", 1)

SDL_AddEventWatch(s) ==
    Call([s EXCEPT !.sdl.watchers = @ + 1], "SDL_AddEventWatch", 0)

SDL_DelEventWatch(s) ==
    Call([s EXCEPT !.sdl.watchers = IF @ > 0 THEN @ - 1 ELSE 0], "SDL_DelEventWatch", 0)

(***************************************************************************)
(* Host input system helpers called from this file.                        *)
(***************************************************************************)
EnableJoystickInput(s, bEnable) ==
    Call([s EXCEPT !.sys.m_JoysticksEnabled = bEnable],
         "EnableJoystickInput", IF bEnable THEN 1 ELSE 0)

SetJoyXControllerFound(s, found) ==
    [s EXCEPT !.cvar.joy_xcontroller_found = found,
              !.cvar.joystick = IF found THEN TRUE ELSE @]

\* m_pJoystickInfo[0] after memset and m_nDeviceId = -1.
EmptyInfo ==
    [m_pDevice |-> NULL, m_pHaptic |-> NULL, m_nDeviceId |-> NoDevice,
     m_nButtonCount |-> 0, m_bRumbleEnabled |-> FALSE, m_fCurrentRumble |-> 0]

(***************************************************************************)
(* CInputSystem::JoystickHotplugRemoved                                    *)
(***************************************************************************)
\* Variant: the device handle is closed before the haptic actuator.
CloseSessionHandlesDeviceFirst(s) ==
    SDL_CloseHaptic(SDL_CloseGamepad(s, s.info.m_pDevice), s.info.m_pHaptic)

CloseSessionHandles(s) ==
    SDL_CloseGamepad(SDL_CloseHaptic(s, s.info.m_pHaptic), s.info.m_pDevice)

\* Variant: the reset forgets m_nDeviceId.
ResetSessionFieldsKeepingId(s) ==
    [s EXCEPT !.info.m_pHaptic = NULL,
              !.info.m_pDevice = NULL,
              !.info.m_nButtonCount = 0,
              !.info.m_bRumbleEnabled = FALSE]

\* Variant: the reset leaves the session's identity and handle in place.
ResetSessionFieldsKeepingHandle(s) ==
    [s EXCEPT !.info.m_pHaptic = NULL,
              !.info.m_nButtonCount = 0,
              !.info.m_bRumbleEnabled = FALSE]

\* Variant: the reset leaves m_bRumbleEnabled as it is.
ResetSessionFieldsKeepingRumble(s) ==
    [s EXCEPT !.info.m_pHaptic = NULL,
              !.info.m_pDevice = NULL,
              !.info.m_nButtonCount = 0,
              !.info.m_nDeviceId = NoDevice]

ResetSessionFields(s) ==
    [s EXCEPT !.info.m_pHaptic = NULL,
              !.info.m_pDevice = NULL,
              !.info.m_nButtonCount = 0,
              !.info.m_nDeviceId = NoDevice,
              !.info.m_bRumbleEnabled = FALSE]

\* Variant: the notification's id is not compared with the session's.
JoystickHotplugRemovedAnyId(s, joystickId) ==
    IF s.info.m_pDevice = NULL THEN [s EXCEPT !.info.m_nDeviceId = NoDevice]
    ELSE LET a == [s EXCEPT !.sys.m_nJoystickCount = 0, !.sys.m_bXController = FALSE]
             b == SetJoyXControllerFound(EnableJoystickInput(a, FALSE), FALSE)
         IN ResetSessionFields(CloseSessionHandles(b))

JoystickHotplugRemoved(s, joystickId) ==
    IF s.info.m_nDeviceId # joystickId THEN s
    ELSE IF s.info.m_pDevice = NULL THEN [s EXCEPT !.info.m_nDeviceId = NoDevice]
    ELSE LET a == [s EXCEPT !.sys.m_nJoystickCount = 0, !.sys.m_bXController = FALSE]
             b == SetJoyXControllerFound(EnableJoystickInput(a, FALSE), FALSE)
         IN ResetSessionFields(CloseSessionHandles(b))

(***************************************************************************)
(* CInputSystem::JoystickHotplugAdded, SearchForDevice and the joy_active  *)
(* change callback (mutually recursive in the source).  hap is what the    *)
(* haptic layer answers if a gamepad gets opened: "ok" (the open gives a   *)
(* handle and SDL_InitHapticRumble returns 0), "noopen" (the open gives    *)
(* NULL) or "noinit" (a handle, and SDL_InitHapticRumble returns nonzero). *)
(***************************************************************************)
HapticAnswers == {"ok", "noopen", "noinit"}

\* Variant: "first available" takes a candidate although a session is open.
SelectorRejectsNothingWhenFirstAvailable(s, joystickID) ==
    LET activeJoystick == s.cvar.joy_active
    IN IF activeJoystick < 0 THEN FALSE ELSE activeJoystick # joystickID

\* Variant: a specific preference is not compared with the candidate.
SelectorRejectsIgnoringPreference(s, joystickID) ==
    LET activeJoystick == s.cvar.joy_active
    IN IF activeJoystick < 0 THEN s.info.m_nDeviceId # NoDevice ELSE FALSE

\* Lines 294-309: the selection policy turning the candidate down.
SelectorRejects(s, joystickID) ==
    LET activeJoystick == s.cvar.joy_active
    IN IF activeJoystick < 0
       THEN s.info.m_nDeviceId # NoDevice
       ELSE activeJoystick # joystickID

\* Lines 311-321: nothing to do, or the old session goes first.
AlreadyOpen(s, joystickID) ==
    s.info.m_nDeviceId # NoDevice /\ s.info.m_nDeviceId = joystickID

\* Variant: the old session is not removed first.
MakeRoomWithoutClosing(s) == s

MakeRoom(s) ==
    IF s.info.m_nDeviceId # NoDevice
    THEN JoystickHotplugRemoved(s, s.info.m_nDeviceId)
    ELSE s

\* Lines 334-350: the haptic actuator and the session fields.
FillSession(s, joystickID, hap) ==
    LET o == IF hap = "noopen"
             THEN Call(s, "SDL_OpenHapticFromJoystick", NULL)
             ELSE SDL_OpenHapticFromJoystick(s, joystickID)
        a == IF hap = "noopen" THEN o
             ELSE Call(o, "SDL_InitHapticRumble", IF hap = "noinit" THEN 1 ELSE 0)
        haptic == IF hap = "ok" THEN joystickID ELSE NULL
        b == [a EXCEPT !.info.m_pDevice = joystickID,
                       !.info.m_pHaptic = haptic,
                       !.info.m_nDeviceId = joystickID,
                       !.info.m_nButtonCount = SDL_GAMEPAD_BUTTON_MAX,
                       !.info.m_bRumbleEnabled = FALSE]
        c == EnableJoystickInput(SetJoyXControllerFound(b, TRUE), TRUE)
    IN [c EXCEPT !.sys.m_nJoystickCount = 1, !.sys.m_bXController = TRUE]

RECURSIVE JoystickHotplugAdded(_, _, _)
RECURSIVE SearchForDevice(_, _)
RECURSIVE SearchLoop(_, _, _)

\* ConVar joy_active with its change callback: SetValue runs
\* joy_active_changed_f when the value changes.
joy_active_changed_f(s, hap) == SearchForDevice(s, hap)

joy_active_SetValue(s, value, hap) ==
    IF s.cvar.joy_active = value THEN s
    ELSE joy_active_changed_f([s EXCEPT !.cvar.joy_active = value], hap)

JoystickHotplugAdded(s, joystickID, hap) ==
    IF ~SDL_IsGamepad(s, joystickID) THEN s
    ELSE LET a == SDL_OpenJoystick(s, joystickID)
         IN IF ~JoystickOpens(s, joystickID) THEN a
            ELSE LET b == SDL_CloseJoystick(a, joystickID)
                 IN IF SelectorRejects(b, joystickID) THEN b
                    ELSE IF AlreadyOpen(b, joystickID) THEN b
                    ELSE LET c == MakeRoom(b)
                             d == SDL_OpenGamepad(c, joystickID)
                         IN IF ~GamepadOpens(c, joystickID) THEN d
                            ELSE joy_active_SetValue(FillSession(d, joystickID, hap),
                                                     NoDevice, hap)

SearchLoop(s, joysticks, hap) ==
    IF joysticks = <<>> THEN s
    ELSE LET id == Head(joysticks)
             a == SDL_OpenJoystick(s, id)
             b == IF JoystickOpens(s, id) THEN JoystickHotplugAdded(a, id, hap) ELSE a
         IN SearchLoop(b, Tail(joysticks), hap)

SearchForDevice(s, hap) ==
    LET newJoystickId == s.cvar.joy_active
    IN IF newJoystickId < 0
       THEN JoystickHotplugAdded(s, 0, hap)
       ELSE SearchLoop(s, SDL_GetJoysticks(s), hap)

(***************************************************************************)
(* CInputSystem::ShutdownJoysticks / InitializeJoysticks and the           *)
(* joy_gamecontroller_config change callback.                              *)
(***************************************************************************)
\* Variant: the watcher is left registered.
ShutdownJoysticksKeepingWatch(s) ==
    IF ~s.sys.m_bJoystickInitialized THEN s
    ELSE LET b == IF s.info.m_pDevice # NULL
                  THEN JoystickHotplugRemoved(s, s.info.m_nDeviceId)
                  ELSE s
         IN [SDL_QuitSubSystem(b) EXCEPT !.sys.m_bJoystickInitialized = FALSE]

ShutdownJoysticks(s) ==
    IF ~s.sys.m_bJoystickInitialized THEN s
    ELSE LET a == SDL_DelEventWatch(s)
             b == IF a.info.m_pDevice # NULL
                  THEN JoystickHotplugRemoved(a, a.info.m_nDeviceId)
                  ELSE a
         IN [SDL_QuitSubSystem(b) EXCEPT !.sys.m_bJoystickInitialized = FALSE]

RECURSIVE InitLoop(_, _, _)
InitLoop(s, joysticks, hap) ==
    IF joysticks = <<>> THEN s
    ELSE LET id == Head(joysticks)
             a == IF SDL_IsGamepad(s, id) THEN JoystickHotplugAdded(s, id, hap) ELSE s
         IN InitLoop(a, Tail(joysticks), hap)

\* Variant: the session record is left as it is.
AssumeNoJoystickWithoutReset(s) == [s EXCEPT !.sys.m_nJoystickCount = 0]

\* Lines 164-170: "assume no joystick".
AssumeNoJoystick(s) ==
    [s EXCEPT !.sys.m_nJoystickCount = 0, !.info = EmptyInfo]

\* Lines 175-181: the hint is passed on only when the convar is not empty.
PassHint(s) ==
    IF s.cvar.joy_gamecontroller_config # 0
    THEN Call(s, "SDL_SetHint", s.cvar.joy_gamecontroller_config)
    ELSE s

\* Variant: -nojoy is not looked at.
InitializeJoysticksIgnoringNoJoy(s, initOk, hap) ==
    LET a == IF s.sys.m_bJoystickInitialized THEN ShutdownJoysticks(s) ELSE s
        c == PassHint(AssumeNoJoystick(a))
    IN IF ~initOk THEN Call(c, "SDL_InitSubSystem", 0)
       ELSE LET d == SDL_InitSubSystem(c)
                e == [d EXCEPT !.sys.m_bJoystickInitialized = TRUE]
                f == SDL_AddEventWatch(e)
            IN InitLoop(f, SDL_GetJoysticks(f), hap)

InitializeJoysticks(s, initOk, hap) ==
    LET a == IF s.sys.m_bJoystickInitialized THEN ShutdownJoysticks(s) ELSE s
        b == AssumeNoJoystick(a)
    IN IF nojoy THEN b
       ELSE LET c == PassHint(b)
            IN IF ~initOk THEN Call(c, "SDL_InitSubSystem", 0)
               ELSE LET d == SDL_InitSubSystem(c)
                        e == [d EXCEPT !.sys.m_bJoystickInitialized = TRUE]
                        f == SDL_AddEventWatch(e)
                    IN InitLoop(f, SDL_GetJoysticks(f), hap)

\* The convar already holds the new value when the callback runs; the hint
\* values are 0 (the empty string) or the number of a non-empty mapping.
joy_gamecontroller_config_changed_f(s, pOldValue, initOk, hap) ==
    IF s.sdl.init
    THEN LET oldValuePresent == pOldValue # 0
             newValuePresent == s.cvar.joy_gamecontroller_config # 0
         IN IF ~oldValuePresent /\ ~newValuePresent THEN s
            ELSE InitializeJoysticks(ShutdownJoysticks(s), initOk, hap)
    ELSE s

(***************************************************************************)
(* JoystickSDLWatcher: the hotplug cases.                                  *)
(***************************************************************************)
WatcherAdded(s, which, hap) == JoystickHotplugAdded(s, which, hap)

WatcherRemoved(s, which, hap) ==
    SearchForDevice(JoystickHotplugRemoved(s, which), hap)

(***************************************************************************)
(* The event translator: ControllerButtonToButtonCode,                     *)
(* ControllerAxisToAnalogCode, JoystickButtonPress / Release and           *)
(* JoystickAxisMotion.  An event is a call of PostButtonPressedEvent,      *)
(* PostButtonReleasedEvent or PostEvent(IE_AnalogValueChanged).            *)
(***************************************************************************)
ControllerButtonToButtonCode(button) ==
    CASE button = 0 -> "KEY_XBUTTON_A"
      [] button = 1 -> "KEY_XBUTTON_B"
      [] button = 2 -> "KEY_XBUTTON_X"
      [] button = 3 -> "KEY_XBUTTON_Y"
      [] button = 4 -> "KEY_XBUTTON_BACK"
      [] button = 6 -> "KEY_XBUTTON_START"
      [] button = 5 -> "KEY_XBUTTON_BACK"
      [] button = 7 -> "KEY_XBUTTON_STICK1"
      [] button = 8 -> "KEY_XBUTTON_STICK2"
      [] button = 9 -> "KEY_XBUTTON_LEFT_SHOULDER"
      [] button = 10 -> "KEY_XBUTTON_RIGHT_SHOULDER"
      [] button = 11 -> "KEY_XBUTTON_UP"
      [] button = 12 -> "KEY_XBUTTON_DOWN"
      [] button = 13 -> "KEY_XBUTTON_LEFT"
      [] button = 14 -> "KEY_XBUTTON_RIGHT"
      [] OTHER -> BUTTON_CODE_NONE

\* Variant: the right trigger does not share the left trigger's channel.
ControllerAxisToAnalogCodeSeparateTriggers(axis) ==
    CASE axis = SDL_GAMEPAD_AXIS_LEFTX -> "JOY_AXIS_X"
      [] axis = SDL_GAMEPAD_AXIS_LEFTY -> "JOY_AXIS_Y"
      [] axis = SDL_GAMEPAD_AXIS_RIGHTX -> "JOY_AXIS_U"
      [] axis = SDL_GAMEPAD_AXIS_RIGHTY -> "JOY_AXIS_R"
      [] axis = SDL_GAMEPAD_AXIS_RIGHT_TRIGGER -> "JOY_AXIS_R"
      [] axis = SDL_GAMEPAD_AXIS_LEFT_TRIGGER -> "JOY_AXIS_Z"
      [] OTHER -> ANALOG_CODE_INVALID

ControllerAxisToAnalogCode(axis) ==
    CASE axis = SDL_GAMEPAD_AXIS_LEFTX -> "JOY_AXIS_X"
      [] axis = SDL_GAMEPAD_AXIS_LEFTY -> "JOY_AXIS_Y"
      [] axis = SDL_GAMEPAD_AXIS_RIGHTX -> "JOY_AXIS_U"
      [] axis = SDL_GAMEPAD_AXIS_RIGHTY -> "JOY_AXIS_R"
      [] axis = SDL_GAMEPAD_AXIS_RIGHT_TRIGGER -> "JOY_AXIS_Z"
      [] axis = SDL_GAMEPAD_AXIS_LEFT_TRIGGER -> "JOY_AXIS_Z"
      [] OTHER -> ANALOG_CODE_INVALID

JoystickButtonPress(s, joystickId, button) ==
    IF s.info.m_nDeviceId # joystickId THEN s
    ELSE Post(s, "IE_ButtonPressed", ControllerButtonToButtonCode(button), 0)

JoystickButtonRelease(s, joystickId, button) ==
    IF s.info.m_nDeviceId # joystickId THEN s
    ELSE Post(s, "IE_ButtonReleased", ControllerButtonToButtonCode(button), 0)

\* Lines 431-440: the button a trigger axis stands for.
AxisButtonCode(axis) ==
    CASE axis = SDL_GAMEPAD_AXIS_RIGHT_TRIGGER -> KEY_XBUTTON_RTRIGGER
      [] axis = SDL_GAMEPAD_AXIS_LEFT_TRIGGER -> KEY_XBUTTON_LTRIGGER
      [] OTHER -> BUTTON_CODE_NONE

\* int pressThreshold = joy_axisbutton_threshold.GetFloat() * 32767;
PressThreshold == (joy_axisbutton_threshold * AxisRange) \div 1000

\* int minValue = joy_axis_deadzone.GetFloat() * 32767;
MinValue == (joy_axis_deadzone * AxisRange) \div 1000

Abs(x) == IF x < 0 THEN -x ELSE x

\* Variant: "pressed" is posted on every sample above the threshold.
TriggerButtonPressingEachTime(s, buttonCode, value) ==
    IF value > PressThreshold
    THEN [Post(s, "IE_ButtonPressed", buttonCode, 0)
             EXCEPT !.input.repeats[buttonCode] = @ + 1]
    ELSE [Post(s, "IE_ButtonReleased", buttonCode, 0)
             EXCEPT !.input.repeats[buttonCode] = 0]

\* Variant: "released" is posted on the falling edge only.
TriggerButtonReleasingOnce(s, buttonCode, value) ==
    IF value > PressThreshold
    THEN LET a == IF s.input.repeats[buttonCode] < 1
                  THEN Post(s, "IE_ButtonPressed", buttonCode, 0)
                  ELSE s
         IN [a EXCEPT !.input.repeats[buttonCode] = @ + 1]
    ELSE [(IF s.input.repeats[buttonCode] > 0
           THEN Post(s, "IE_ButtonReleased", buttonCode, 0)
           ELSE s)
             EXCEPT !.input.repeats[buttonCode] = 0]

\* Lines 442-462: the synthesized trigger button.
TriggerButton(s, buttonCode, value) ==
    IF value > PressThreshold
    THEN LET a == IF s.input.repeats[buttonCode] < 1
                  THEN Post(s, "IE_ButtonPressed", buttonCode, 0)
                  ELSE s
         IN [a EXCEPT !.input.repeats[buttonCode] = @ + 1]
    ELSE [Post(s, "IE_ButtonReleased", buttonCode, 0)
             EXCEPT !.input.repeats[buttonCode] = 0]

\* Variant: a value equal to the limit is zeroed too.
DeadzoneInclusive(value) == IF Abs(value) <= MinValue THEN 0 ELSE value

\* Lines 464-468: the dead zone.
Deadzone(value) == IF Abs(value) < MinValue THEN 0 ELSE value

\* Variant: the value is posted whether it changed or not.
StoreAnalogAlwaysPosting(s, code, value) ==
    Post([s EXCEPT !.input.m_pAnalogValue[code] = value],
         "IE_AnalogValueChanged", code, value)

\* Lines 470-476: store the value, post it when it changed.
StoreAnalog(s, code, value) ==
    LET delta == value - s.input.m_pAnalogValue[code]
        a == [s EXCEPT !.input.m_pAnalogValue[code] = value]
    IN IF delta # 0 THEN Post(a, "IE_AnalogValueChanged", code, value) ELSE a

JoystickAxisMotion(s, joystickId, axis, value) ==
    IF s.info.m_nDeviceId # joystickId THEN s
    ELSE LET code == ControllerAxisToAnalogCode(axis)
         IN IF code = ANALOG_CODE_INVALID THEN s
            ELSE LET buttonCode == AxisButtonCode(axis)
                     a == IF buttonCode # BUTTON_CODE_NONE
                          THEN TriggerButton(s, buttonCode, value)
                          ELSE s
                 IN StoreAnalog(a, code, Deadzone(value))

(***************************************************************************)
(* CInputSystem::SetXDeviceRumble.  Motor strengths are given in           *)
(* thousandths; strength, m_fCurrentRumble and RumbleEpsilon are in units  *)
(* of 1/2000, so that (fLeftMotor + fRightMotor) / 2 is exact.  rc is the  *)
(* value SDL_PlayHapticRumble returns.                                     *)
(***************************************************************************)
Strength(fLeftMotor, fRightMotor) == fLeftMotor + fRightMotor

\* Lines 536-542.
ShouldStop(s, strength) == strength < RumbleEpsilon \/ ~s.cvar.joystick

\* Variant: the stop command is issued whether rumble is enabled or not.
StopRumbleWhetherEnabledOrNot(s) ==
    [Call(s, "SDL_StopHapticRumble", s.info.m_pHaptic)
        EXCEPT !.info.m_bRumbleEnabled = FALSE, !.info.m_fCurrentRumble = 0]

\* Lines 544-554.
StopRumble(s) ==
    IF s.info.m_bRumbleEnabled
    THEN [Call(s, "SDL_StopHapticRumble", s.info.m_pHaptic)
             EXCEPT !.info.m_bRumbleEnabled = FALSE, !.info.m_fCurrentRumble = 0]
    ELSE s

\* Variant: a small change is not suppressed.
LittleChangeNeverSuppressed(s, strength) == FALSE

\* Line 557: "If there's little change, then don't change the rumble strength."
LittleChange(s, strength) ==
    s.info.m_bRumbleEnabled /\ Abs(s.info.m_fCurrentRumble - strength) < RumbleEpsilon

\* Variant: the bookkeeping is updated only when the command returns 0.
PlayRumbleBookingSuccessOnly(s, strength, rc) ==
    IF rc # 0
    THEN Call(Call(s, "SDL_PlayHapticRumble", strength), "Warning", strength)
    ELSE Call([s EXCEPT !.info.m_bRumbleEnabled = TRUE,
                        !.info.m_fCurrentRumble = strength],
              "SDL_PlayHapticRumble", strength)

\* Lines 562-568.
PlayRumble(s, strength, rc) ==
    LET a == [s EXCEPT !.info.m_bRumbleEnabled = TRUE, !.info.m_fCurrentRumble = strength]
        b == Call(a, "SDL_PlayHapticRumble", strength)
    IN IF rc # 0 THEN Call(b, "Warning", strength) ELSE b

\* Variant: a session without haptic actuator is not turned away.
SetXDeviceRumbleWithoutHapticCheck(s, fLeftMotor, fRightMotor, rc) ==
    IF s.info.m_nDeviceId < 0 THEN s
    ELSE LET strength == Strength(fLeftMotor, fRightMotor)
         IN IF ShouldStop(s, strength) THEN StopRumble(s)
            ELSE IF LittleChange(s, strength) THEN s
            ELSE PlayRumble(s, strength, rc)

SetXDeviceRumble(s, fLeftMotor, fRightMotor, rc) ==
    IF s.info.m_nDeviceId < 0 \/ s.info.m_pHaptic = NULL THEN s
    ELSE LET strength == Strength(fLeftMotor, fRightMotor)
         IN IF ShouldStop(s, strength) THEN StopRumble(s)
            ELSE IF LittleChange(s, strength) THEN s
            ELSE PlayRumble(s, strength, rc)

(***************************************************************************)
(* The state machine.                                                      *)
(***************************************************************************)
\* Values the user gives joy_active: -1, or an id (0 is no device's id).
Preferences == {NoDevice} \cup (0..MaxDevices)

\* Values of joy_gamecontroller_config: 0 is "", 1 and 2 two mappings.
Mappings == {0, 1, 2}

\* What `last` remembers of the state an entry point started from.
Pre == [info |-> info, joy_active |-> cvar.joy_active, started |-> startup.done]

IsClose(c) == c.fn \in {"SDL_CloseGamepad", "SDL_CloseHaptic"}
IsHapticCommand(c) == c.fn \in {"SDL_PlayHapticRumble", "SDL_StopHapticRumble"}
IsPlay(c) == c.fn = "SDL_PlayHapticRumble"
IsStop(c) == c.fn = "SDL_StopHapticRumble"
IsWarning(c) == c.fn = "Warning"

Count(seq, Test(_)) == Cardinality({i \in 1..Len(seq) : Test(seq[i])})

\* What `was` keeps of the entry point that ran before the last one: a
\* removal notification that matched the active device, or a rumble call;
\* and, in `stopped`, of all entry points before the last one.
NothingBefore ==
    [op |-> "other", id |-> NoDevice, a |-> 0, b |-> 0, cmds |-> 0, enabled |-> FALSE,
     failed |-> FALSE, stopped |-> FALSE]

\* Whether the haptic command issued most recently, by the last entry point
\* or by an earlier one, is a stop command.
LastCommandIsStop ==
    IF Count(out.calls, IsHapticCommand) > 0
    THEN IsStop(out.calls[CHOOSE i \in 1..Len(out.calls) :
                             /\ IsHapticCommand(out.calls[i])
                             /\ \A j \in (i + 1)..Len(out.calls) :
                                    ~IsHapticCommand(out.calls[j])])
    ELSE was.stopped

WasOp ==
    IF last.op = "removed" /\ last.pre.info.m_nDeviceId = last.id
    THEN [NothingBefore EXCEPT !.op = "removed", !.id = last.id]
    ELSE IF last.op = "shutdown"
    THEN [NothingBefore EXCEPT !.op = "shutdown"]
    ELSE IF last.op = "rumble"
    THEN [NothingBefore EXCEPT !.op = "rumble", !.a = last.a, !.b = last.b,
                               !.cmds = Count(out.calls, IsHapticCommand),
                               !.enabled = last.pre.info.m_bRumbleEnabled,
                               !.failed = Count(out.calls, IsWarning) > 0]
    ELSE NothingBefore

Was == [WasOp EXCEPT !.stopped = LastCommandIsStop]

Ran(op, id, a, b, t) ==
    /\ Commit(t)
    /\ last' = [op |-> op, id |-> id, a |-> a, b |-> b, pre |-> Pre]
    /\ was' = Was
    /\ t.sdl.joyRefs <= MaxJoyRefs
    /\ UNCHANGED <<kind, nojoy>>

\* SDL posts gamepad events for recognized devices, to a registered watcher.
Delivers(s, d) == s.sdl.init /\ s.sdl.watchers > 0 /\ kind[d] # "joy"

NotStarted ==
    [done |-> FALSE, ok |-> FALSE, attached |-> {}, pref |-> NoDevice, sel |-> NoDevice,
     touched |-> FALSE]

\* The device kinds of a run: at most one device is not a plain gamepad.
Scenarios ==
    {k \in [Devices -> Kinds] : Cardinality({d \in Devices : k[d] # "pad"}) <= 1}

ProcessStart ==
    /\ info = [EmptyInfo EXCEPT !.m_nDeviceId = 0]
    /\ sys = [m_nJoystickCount |-> 0, m_bXController |-> FALSE,
              m_bJoystickInitialized |-> FALSE, m_JoysticksEnabled |-> FALSE]
    /\ cvar = [joy_active |-> NoDevice, joy_gamecontroller_config |-> 0,
               joy_xcontroller_found |-> FALSE, joystick |-> FALSE]
    /\ sdl = [init |-> FALSE, watchers |-> 0,
              joyRefs |-> 0, pads |-> {}, haptics |-> {}]
    /\ input = [repeats |-> [k \in {KEY_XBUTTON_LTRIGGER, KEY_XBUTTON_RTRIGGER} |-> 0],
                m_pAnalogValue |-> [c \in AnalogCodes |-> 0]]
    /\ out = EmptyOut
    /\ startup = NotStarted
    /\ feed = [axis |-> 0, samples |-> <<>>, events |-> <<>>]
    /\ last = [op |-> "start", id |-> NoDevice, a |-> 0, b |-> 0,
               pre |-> [info |-> info, joy_active |-> NoDevice, started |-> FALSE]]
    /\ was = NothingBefore

Init ==
    /\ ProcessStart
    /\ status = [d \in Devices |-> "fresh"]
    /\ kind \in Scenarios
    /\ nojoy \in BOOLEAN

\* The host calls InitializeJoysticks (at startup, or again later).
Initialize(initOk, hap) ==
    LET t == InitializeJoysticks(S, initOk, hap)
    IN /\ Ran("init", NoDevice, IF initOk THEN 1 ELSE 0, 0, t)
       /\ startup' = [startup EXCEPT !.done = TRUE]
       /\ UNCHANGED feed

Shutdown ==
    /\ Ran("shutdown", NoDevice, 0, 0, ShutdownJoysticks(S))
    /\ UNCHANGED <<startup, feed>>

\* A device is plugged in; SDL posts SDL_EVENT_GAMEPAD_ADDED.
DeviceAttached(d, hap) ==
    /\ status[d] = "fresh"
    /\ LET s == [S EXCEPT !.status[d] = "attached"]
       IN IF Delivers(s, d)
          THEN Ran("added", d, 0, 0, WatcherAdded(s, d, hap))
          ELSE Ran("plugged", d, 0, 0, s)
    /\ UNCHANGED <<startup, feed>>

\* A device is unplugged; SDL posts SDL_EVENT_GAMEPAD_REMOVED.
DeviceRemoved(d, hap) ==
    /\ status[d] = "attached"
    /\ LET s == [S EXCEPT !.status[d] = "gone"]
       IN IF Delivers(s, d)
          THEN Ran("removed", d, 0, 0, WatcherRemoved(s, d, hap))
          ELSE Ran("unplugged", d, 0, 0, s)
    /\ UNCHANGED <<startup, feed>>

\* SDL_EVENT_GAMEPAD_ADDED once more for a device that is attached.
AddedAgain(d, hap) ==
    /\ status[d] = "attached"
    /\ Delivers(S, d)
    /\ Ran("added", d, 0, 0, WatcherAdded(S, d, hap))
    /\ UNCHANGED <<startup, feed>>

\* SDL_EVENT_GAMEPAD_REMOVED once more for a device that is gone.
RemovedAgain(d, hap) ==
    /\ status[d] = "gone"
    /\ Delivers(S, d)
    /\ Ran("removed", d, 0, 0, WatcherRemoved(S, d, hap))
    /\ UNCHANGED <<startup, feed>>

\* The user changes joy_active.
SetJoyActive(value, hap) ==
    /\ value # cvar.joy_active
    /\ Ran("joy_active", value, 0, 0, joy_active_SetValue(S, value, hap))
    /\ UNCHANGED <<startup, feed>>

\* The user changes joy_gamecontroller_config.
SetControllerConfig(value, initOk, hap) ==
    /\ value # cvar.joy_gamecontroller_config
    /\ LET s == [S EXCEPT !.cvar.joy_gamecontroller_config = value]
       IN Ran("config", NoDevice, value, IF initOk THEN 1 ELSE 0,
              joy_gamecontroller_config_changed_f(s, cvar.joy_gamecontroller_config,
                                                  initOk, hap))
    /\ UNCHANGED <<startup, feed>>

\* What the haptic layer answers in the specifications that do not look at
\* handles the code drops.
HapticOkOrNot == {"ok", "noopen"}

Next ==
    \/ \E initOk \in BOOLEAN, hap \in HapticOkOrNot : Initialize(initOk, hap)
    \/ Shutdown
    \/ \E d \in Devices, hap \in HapticOkOrNot : DeviceAttached(d, hap)
    \/ \E d \in Devices, hap \in HapticOkOrNot : DeviceRemoved(d, hap)
    \/ \E d \in Devices, hap \in HapticOkOrNot : AddedAgain(d, hap)
    \/ \E d \in Devices, hap \in HapticOkOrNot : RemovedAgain(d, hap)
    \/ \E value \in Preferences, hap \in HapticOkOrNot : SetJoyActive(value, hap)

Spec == Init /\ [][Next]_vars

(***************************************************************************)
(* Input notifications and rumble calls.                                   *)
(***************************************************************************)
\* Raw buttons used: SOUTH and MISC1 (no entry in the table).
Buttons == {0, 15}

\* Raw axes used: LEFTX, the two triggers, and 6 (no entry in the table).
Axes == {SDL_GAMEPAD_AXIS_LEFTX, SDL_GAMEPAD_AXIS_LEFT_TRIGGER,
         SDL_GAMEPAD_AXIS_RIGHT_TRIGGER, 6}

\* Raw axis values used: at rest,
\* inside the dead zone, and beyond the press threshold.
AxisSamples == {0, 5000, 20000}

\* Motor strengths used, in thousandths.
LeftMotor == {0, 12, 300, 312}
RightMotor == {0, 12}

\* Values SDL_PlayHapticRumble returns.
PlayReturns == {0, 1}

\* SDL_EVENT_GAMEPAD_BUTTON_DOWN
ButtonDown(id, button) ==
    /\ sdl.init /\ sdl.watchers > 0
    /\ Ran("button_down", id, button, 0, JoystickButtonPress(S, id, button))
    /\ UNCHANGED <<startup, feed>>

\* SDL_EVENT_GAMEPAD_BUTTON_UP
ButtonUp(id, button) ==
    /\ sdl.init /\ sdl.watchers > 0
    /\ Ran("button_up", id, button, 0, JoystickButtonRelease(S, id, button))
    /\ UNCHANGED <<startup, feed>>

\* SDL_EVENT_GAMEPAD_AXIS_MOTION
AxisMotion(id, axis, value) ==
    /\ sdl.init /\ sdl.watchers > 0
    /\ LET t == JoystickAxisMotion(S, id, axis, value)
       IN /\ \A k \in DOMAIN t.input.repeats : t.input.repeats[k] <= MaxRepeats
          /\ Ran("axis", id, axis, value, t)
    /\ UNCHANGED <<startup, feed>>

\* The host calls SetXDeviceRumble.
Rumble(fLeftMotor, fRightMotor, rc) ==
    /\ Ran("rumble", NoDevice, fLeftMotor, fRightMotor,
           SetXDeviceRumble(S, fLeftMotor, fRightMotor, rc))
    /\ UNCHANGED <<startup, feed>>

\* The user switches the "joystick" convar.
SetJoystickVar(value) ==
    /\ value # cvar.joystick
    /\ Ran("joystick", NoDevice, 0, 0, [S EXCEPT !.cvar.joystick = value])
    /\ UNCHANGED <<startup, feed>>

\* Runs in which every device is a gamepad that opens and -nojoy is absent.
InitAllPads ==
    /\ ProcessStart
    /\ status = [d \in Devices |-> "fresh"]
    /\ kind = [d \in Devices |-> "pad"]
    /\ nojoy = FALSE

NextInput ==
    \/ Initialize(TRUE, "ok")
    \/ \E d \in Devices : DeviceAttached(d, "ok")
    \/ \E d \in Devices : DeviceRemoved(d, "ok")
    \/ \E id \in Devices, button \in Buttons : ButtonDown(id, button)
    \/ \E id \in Devices, button \in Buttons : ButtonUp(id, button)
    \/ \E id \in Devices, axis \in Axes, value \in AxisSamples \ {0} :
          AxisMotion(id, axis, value)

SpecInput == InitAllPads /\ [][NextInput]_vars

NextRumble ==
    \/ Initialize(TRUE, "ok")
    \/ \E d \in Devices, hap \in HapticAnswers : DeviceAttached(d, hap)
    \/ \E d \in Devices : DeviceRemoved(d, "ok")
    \/ \E l \in LeftMotor, r \in RightMotor, rc \in PlayReturns : Rumble(l, r, rc)
    \/ \E value \in BOOLEAN : SetJoystickVar(value)

SpecRumble == InitAllPads /\ [][NextRumble]_vars

(***************************************************************************)
(* The first initialization recorded, to compare later ones with it.       *)
(***************************************************************************)
\* The active-device selection: the id of the open session, or none.
Selection(s) == IF s.info.m_pDevice # NULL THEN s.info.m_nDeviceId ELSE NoDevice

\* The first InitializeJoysticks of the process.
Startup(initOk, hap) ==
    /\ ~startup.done
    /\ LET t == InitializeJoysticks(S, initOk, hap)
       IN /\ Ran("init", NoDevice, IF initOk THEN 1 ELSE 0, 0, t)
          /\ startup' = [done |-> TRUE, ok |-> initOk, attached |-> Attached(S),
                         pref |-> cvar.joy_active, sel |-> Selection(t),
                         touched |-> FALSE]
    /\ UNCHANGED feed

\* The user sets joy_active; noted when that is after the first initialization.
SetPreference(value, hap) ==
    /\ value # cvar.joy_active
    /\ Ran("joy_active", value, 0, 0, joy_active_SetValue(S, value, hap))
    /\ startup' = [startup EXCEPT !.touched = startup.done]
    /\ UNCHANGED feed

\* Any later InitializeJoysticks.
Restart(initOk, hap) == startup.done /\ Initialize(initOk, hap)

NextRestart ==
    \/ \E initOk \in BOOLEAN : Startup(initOk, "ok")
    \/ \E initOk \in BOOLEAN : Restart(initOk, "ok")
    \/ Shutdown
    \/ \E d \in Devices : DeviceAttached(d, "ok")
    \/ \E d \in Devices : DeviceRemoved(d, "ok")
    \/ \E value \in Preferences : SetPreference(value, "ok")

SpecRestart == InitAllPads /\ [][NextRestart]_vars

(***************************************************************************)
(* One trigger axis of the active device fed a sequence of samples.        *)
(***************************************************************************)
\* The button event, if any, among the events of one sample.
ButtonEventOf(events, buttonCode) ==
    LET hits == {i \in 1..Len(events) : events[i].code = buttonCode}
    IN IF hits = {} THEN "none"
       ELSE IF events[CHOOSE i \in hits : TRUE].type = "IE_ButtonPressed" THEN "pressed"
       ELSE "released"

\* Device 1 attached, then a startup that opens it.
AfterStartupWithOneDevice ==
    LET s0 == [info |-> [EmptyInfo EXCEPT !.m_nDeviceId = 0],
               sys |-> [m_nJoystickCount |-> 0, m_bXController |-> FALSE,
                        m_bJoystickInitialized |-> FALSE, m_JoysticksEnabled |-> FALSE],
               cvar |-> [joy_active |-> NoDevice, joy_gamecontroller_config |-> 0,
                         joy_xcontroller_found |-> FALSE, joystick |-> FALSE],
               sdl |-> [init |-> FALSE, watchers |-> 0, joyRefs |-> 0,
                        pads |-> {}, haptics |-> {}],
               input |-> [repeats |-> [k \in {KEY_XBUTTON_LTRIGGER, KEY_XBUTTON_RTRIGGER} |-> 0],
                          m_pAnalogValue |-> [c \in AnalogCodes |-> 0]],
               status |-> [d \in Devices |-> IF d = 1 THEN "attached" ELSE "fresh"],
               out |-> EmptyOut]
    IN InitializeJoysticks(s0, TRUE, "ok")

InitTrigger ==
    /\ kind = [d \in Devices |-> "pad"]
    /\ nojoy = FALSE
    /\ LET t == AfterStartupWithOneDevice
       IN /\ info = t.info /\ sys = t.sys /\ cvar = t.cvar /\ sdl = t.sdl
          /\ input = t.input /\ status = t.status /\ out = t.out
          /\ last = [op |-> "init", id |-> NoDevice, a |-> 1, b |-> 0,
                     pre |-> [info |-> [EmptyInfo EXCEPT !.m_nDeviceId = 0],
                              joy_active |-> NoDevice, started |-> FALSE]]
    /\ was = NothingBefore
    /\ startup = [NotStarted EXCEPT !.done = TRUE]
    /\ feed \in [axis : {SDL_GAMEPAD_AXIS_LEFT_TRIGGER, SDL_GAMEPAD_AXIS_RIGHT_TRIGGER},
                 samples : {<<>>}, events : {<<>>}]

\* SDL_EVENT_GAMEPAD_AXIS_MOTION for the fed trigger axis of the active device.
FeedTrigger(value) ==
    /\ Len(feed.samples) < MaxFeed
    /\ LET t == JoystickAxisMotion(S, info.m_nDeviceId, feed.axis, value)
       IN /\ Ran("axis", info.m_nDeviceId, feed.axis, value, t)
          /\ feed' = [feed EXCEPT
                        !.samples = Append(@, value),
                        !.events = Append(@, ButtonEventOf(t.out.events,
                                                           AxisButtonCode(feed.axis)))]
    /\ UNCHANGED startup

\* The samples fed: AxisSamples and the two values around the threshold.
TriggerSamples == AxisSamples \cup {PressThreshold, PressThreshold + 1}

NextTrigger == \E value \in TriggerSamples : FeedTrigger(value)

SpecTrigger == InitTrigger /\ [][NextTrigger]_vars

(***************************************************************************)
(* Properties of the hotplug life cycle, checked under Spec.               *)
(***************************************************************************)
SessionOpen == info.m_pDevice # NULL

IsCloseGamepad(c) == c.fn = "SDL_CloseGamepad"
IsCloseHaptic(c) == c.fn = "SDL_CloseHaptic"

\* C1: at most one device session is open at any point, the steps inside a
\* replacement included: whenever SDL_OpenGamepad is called no gamepad handle
\* is open, the old session's haptic is closed, and the session's identity
\* fields are reset.
C1_OneSessionAtATime ==
    /\ Cardinality(sdl.pads) <= 1
    /\ \A i \in 1..Len(out.atOpen) :
          LET snap == out.atOpen[i]
          IN /\ snap.pads = {}
             /\ snap.info.m_pDevice = NULL
             /\ snap.info.m_pHaptic = NULL
             /\ snap.info.m_nDeviceId = NoDevice
             /\ last.pre.info.m_pHaptic # NULL
                   => last.pre.info.m_pHaptic \notin snap.haptics

\* C1 witness: an entry point replaced the active device by another one.
C1_Replaced ==
    /\ last.pre.info.m_nDeviceId \in Devices
    /\ last.pre.info.m_pHaptic # NULL
    /\ info.m_nDeviceId \in Devices
    /\ info.m_nDeviceId # last.pre.info.m_nDeviceId
    /\ Len(out.atOpen) = 1

\* C2: once InitializeJoysticks has run, m_nDeviceId is not -1 exactly when
\* m_pDevice is a gamepad handle that is open in the device layer.
C2_IdIffHandle ==
    startup.done =>
        ((info.m_nDeviceId # NoDevice)
            <=> (info.m_pDevice # NULL /\ info.m_pDevice \in sdl.pads))

\* C2 witness: a session was closed by a removal, after startup.
C2_ClosedAfterOpen ==
    /\ startup.done
    /\ last.op = "removed"
    /\ last.pre.info.m_nDeviceId = last.id
    /\ info.m_nDeviceId = NoDevice

\* C3: with joy_active at -1, an attach notification for a gamepad that opens
\* makes it the active device when no session is open, and while a session
\* is open neither an attach notification nor a removal notification for
\* another id changes the active device.
C3_FirstStaysActive ==
    /\ (/\ last.op = "added"
        /\ last.pre.joy_active = NoDevice
        /\ last.pre.info.m_nDeviceId = NoDevice
        /\ kind[last.id] = "pad")
          => info.m_nDeviceId = last.id
    /\ (/\ last.op \in {"added", "removed"}
        /\ last.pre.joy_active = NoDevice
        /\ last.pre.info.m_nDeviceId \in Devices
        /\ ~(last.op = "removed" /\ last.id = last.pre.info.m_nDeviceId))
          => info = last.pre.info

\* C3 witness: another gamepad was attached while the first one was active.
C3_LaterAttach ==
    /\ last.op = "added"
    /\ last.pre.joy_active = NoDevice
    /\ last.pre.info.m_nDeviceId \in Devices
    /\ last.id # last.pre.info.m_nDeviceId
    /\ kind[last.id] = "pad"
    /\ status[last.id] = "attached"

C5_RemovedTwice ==
    /\ (last.op = "removed" /\ last.pre.info.m_nDeviceId = last.id)
          => /\ Count(out.calls, IsCloseGamepad) = 1
             /\ Count(out.calls, IsCloseHaptic) = 1
             /\ ~SessionOpen
    /\ (last.op = "removed" /\ was.op = "removed" /\ was.id = last.id)
          => /\ info = last.pre.info
             /\ Count(out.calls, IsClose) = 0

\* C5 witness: the removal notification of the active device came twice.
C5_SecondDelivery ==
    /\ last.op = "removed"
    /\ was.op = "removed"
    /\ was.id = last.id

\* C9: when a removal notification matched the active session and a gamepad
\* that opens is still attached and admitted by joy_active, a session is open
\* on such a device once the notification has been handled.
C9_ReplacementSelected ==
    (/\ last.op = "removed"
     /\ last.pre.info.m_nDeviceId = last.id
     /\ \E d \in Devices : /\ status[d] = "attached"
                           /\ kind[d] = "pad"
                           /\ last.pre.joy_active \in {NoDevice, d})
       => (SessionOpen /\ status[info.m_nDeviceId] = "attached")

(***************************************************************************)
(* Properties of the event translator and of rumble.                       *)
(***************************************************************************)
TheSamples == <<0, 5000, 20000, 20000, 5000, 0>>

\* C6 as claimed: the samples [0, 5000, 20000, 20000, 5000, 0] on one trigger
\* axis, repeats 0 at first, give [none, none, pressed, none, released, none].
C6_OneReleaseOnly ==
    feed.samples = TheSamples
        => feed.events = <<"none", "none", "pressed", "none", "released", "none">>

\* C6 amended: the same samples give one pressed event, at the first sample
\* above the threshold, and a released event at every sample at or below the
\* threshold: [released, released, pressed, none, released, released].
C6_ReleasedAtEverySampleBelow ==
    feed.samples = TheSamples
        => feed.events = <<"released", "released", "pressed", "none", "released", "released">>

\* C6 witness: the six samples were fed.
C6_SequenceFed == feed.samples = TheSamples /\ Len(feed.events) = 6

RumbleCallOnHaptic ==
    /\ last.op = "rumble"
    /\ was.op = "rumble"
    /\ last.pre.info.m_nDeviceId >= 0
    /\ last.pre.info.m_pHaptic # NULL

CloseStrengths ==
    Abs(Strength(last.a, last.b) - Strength(was.a, was.b)) < RumbleEpsilon

\* C7 as claimed: two SetXDeviceRumble calls in a row on a session with a
\* haptic, strengths less than 0.01 apart, issue one haptic command in all.
C7_ExactlyOneCommand ==
    (RumbleCallOnHaptic /\ CloseStrengths)
        => was.cmds + Count(out.calls, IsHapticCommand) = 1

\* C7 amended: when moreover rumble is not enabled before the first call,
\* both strengths are at least 0.01 and the "joystick" setting is on, the
\* two calls issue one haptic command in all: the first call issues it and
\* the second issues none.
C7_SecondCallSuppressed ==
    (/\ RumbleCallOnHaptic /\ CloseStrengths
     /\ ~was.enabled
     /\ Strength(last.a, last.b) >= RumbleEpsilon
     /\ Strength(was.a, was.b) >= RumbleEpsilon
     /\ cvar.joystick)
        => /\ was.cmds = 1
           /\ Count(out.calls, IsHapticCommand) = 0

\* C7 witness: rumble off, then two calls with unequal strengths less than
\* 0.01 apart, both at least 0.01.
C7_TwoCloseCalls ==
    /\ RumbleCallOnHaptic /\ CloseStrengths
    /\ Strength(last.a, last.b) >= RumbleEpsilon
    /\ Strength(was.a, was.b) >= RumbleEpsilon
    /\ Strength(last.a, last.b) # Strength(was.a, was.b)
    /\ cvar.joystick
    /\ ~was.enabled

IsSentinel(e) == e.code \in {BUTTON_CODE_NONE, ANALOG_CODE_INVALID}

\* C10: no pressed, released or analog-changed event carries the invalid
\* sentinel: a button-down, button-up or axis-motion of the active device
\* with an identifier that has no table entry posts no event.
C10_NoSentinelPosted ==
    /\ Count(out.events, IsSentinel) = 0
    /\ (/\ last.op \in {"button_down", "button_up"}
        /\ ControllerButtonToButtonCode(last.a) = BUTTON_CODE_NONE)
          => out.events = <<>>
    /\ (last.op = "axis" /\ ControllerAxisToAnalogCode(last.a) = ANALOG_CODE_INVALID)
          => out.events = <<>>

(***************************************************************************)
(* Shutdown followed by a second initialization, checked under SpecRestart.*)
(***************************************************************************)
\* ShutdownJoysticks, then InitializeJoysticks, both initializations of the
\* subsystem succeeding, with the devices attached that were attached at
\* the first initialization.  The mapping hint never changes in SpecRestart.
ReopenedWithSameDevices ==
    /\ last.op = "init" /\ last.a = 1
    /\ was.op = "shutdown"
    /\ last.pre.started
    /\ startup.ok
    /\ Attached(S) = startup.attached

\* C8 as claimed: shutting down and initializing again with the same
\* attached devices ends with the selection of the first initialization,
\* whatever the preference was at the first initialization (the user not
\* having set the preference since).
C8_SameSelection ==
    (ReopenedWithSameDevices /\ ~startup.touched) => Selection(S) = startup.sel

\* C8 amended: it does when joy_active holds, at the second initialization,
\* the value it held at the first.
C8_SameSelectionSamePreference ==
    (ReopenedWithSameDevices /\ last.pre.joy_active = startup.pref)
        => Selection(S) = startup.sel

\* C8 witness: such a second initialization with two devices attached, a
\* preference for a specific one, and a session opened.
C8_ReopenedOnPreferred ==
    /\ ReopenedWithSameDevices
    /\ last.pre.joy_active = startup.pref
    /\ startup.pref > 0
    /\ Attached(S) = Devices
    /\ Selection(S) = startup.pref

(***************************************************************************)
(* Notifications that name a device other than the active one, checked     *)
(* under SpecStale: the hotplug life cycle with input notifications for    *)
(* every device id.                                                        *)
(***************************************************************************)
NextStale ==
    \/ Initialize(TRUE, "ok")
    \/ \E d \in Devices : DeviceAttached(d, "ok")
    \/ \E d \in Devices : DeviceRemoved(d, "ok")
    \/ \E d \in Devices : RemovedAgain(d, "ok")
    \/ \E value \in Preferences : SetJoyActive(value, "ok")
    \/ \E id \in Devices : ButtonDown(id, 0)
    \/ \E id \in Devices : ButtonUp(id, 0)
    \/ \E id \in Devices, axis \in {SDL_GAMEPAD_AXIS_LEFTX, SDL_GAMEPAD_AXIS_RIGHT_TRIGGER},
          value \in {0, 20000} : AxisMotion(id, axis, value)

SpecStale == InitAllPads /\ [][NextStale]_vars

Notifications == {"button_down", "button_up", "axis", "removed"}

\* C11: a button-down, button-up, axis-motion or device-removed notification
\* whose id is not the active session's posts no host event and leaves the
\* session fields, the stored analog values and the repeat counts as they
\* were.
C11_OtherIdNoEffect ==
    [][(last'.op \in Notifications /\ last'.id # info.m_nDeviceId)
          => /\ out'.events = <<>>
             /\ info' = info
             /\ input' = input]_vars

\* C11 witness: with a session open and a preference for a specific id, a
\* removal notification for another device was handled.
C11_OtherRemoved ==
    /\ last.op = "removed"
    /\ last.pre.info.m_pDevice # NULL
    /\ last.id # last.pre.info.m_nDeviceId
    /\ last.pre.joy_active >= 0

(***************************************************************************)
(* A rumble command that fails, checked under SpecRumble.                  *)
(***************************************************************************)
\* Two SetXDeviceRumble calls in a row, the first one's play command failed.
RumbleAfterFailedPlay ==
    /\ last.op = "rumble"
    /\ was.op = "rumble"
    /\ was.failed

OneDeviceOpen ==
    /\ kind = [d \in Devices |-> "pad"]
    /\ nojoy = FALSE
    /\ LET t == AfterStartupWithOneDevice
       IN /\ info = t.info /\ sys = t.sys /\ cvar = t.cvar /\ sdl = t.sdl
          /\ input = t.input /\ status = t.status /\ out = t.out
          /\ last = [op |-> "init", id |-> NoDevice, a |-> 1, b |-> 0,
                     pre |-> [info |-> [EmptyInfo EXCEPT !.m_nDeviceId = 0],
                              joy_active |-> NoDevice, started |-> FALSE]]
    /\ was = NothingBefore
    /\ startup = [NotStarted EXCEPT !.done = TRUE]

RawValues == (-AxisRange)..AxisRange

InitDeadzone ==
    /\ OneDeviceOpen
    /\ feed \in [axis : {SDL_GAMEPAD_AXIS_LEFTX},
                 samples : {<<v>> : v \in RawValues},
                 events : {<<>>}]

\* SDL_EVENT_GAMEPAD_AXIS_MOTION with the sample, for the active device.
DeliverSample ==
    /\ feed.events = <<>>
    /\ Ran("axis", info.m_nDeviceId, feed.axis, feed.samples[1],
           JoystickAxisMotion(S, info.m_nDeviceId, feed.axis, feed.samples[1]))
    /\ feed' = [feed EXCEPT !.events = <<"delivered">>]
    /\ UNCHANGED startup

NextDeadzone == DeliverSample

SpecDeadzone == InitDeadzone /\ [][NextDeadzone]_vars

Delivered == feed.events = <<"delivered">>

\* C13: with ratio 0.2 the limit is trunc(0.2 * 32767) = 6553; a raw value v
\* in [-32767, 32767] is stored as 0 when abs(v) < 6553 and as v otherwise;
\* 4000 is stored as 0 and 8000 as 8000.
C13_DeadzoneFilter ==
    Delivered =>
        LET v == feed.samples[1]
            stored == input.m_pAnalogValue["JOY_AXIS_X"]
        IN /\ (2 * 32767) \div 10 = 6553
           /\ (v > -6553 /\ v < 6553) => stored = 0
           /\ (v <= -6553 \/ v >= 6553) => stored = v
           /\ v = 4000 => stored = 0
           /\ v = 8000 => stored = 8000

\* C13 witness: the sample at the limit was delivered and stored unchanged.
C13_AtTheLimit ==
    /\ Delivered
    /\ feed.samples[1] = -6553
    /\ input.m_pAnalogValue["JOY_AXIS_X"] = -6553

(***************************************************************************)
(* -nojoy and the uninitialized subsystem, checked under Spec.             *)
(***************************************************************************)
IsInitCall(c) == c.fn \in {"SDL_InitSubSystem", "SDL_AddEventWatch", "SDL_OpenGamepad"}

\* C14: with -nojoy the subsystem is never initialized, the watcher never
\* registered and no session ever opened, whatever is attached and whatever
\* joy_active is set to; and, with or without -nojoy, no session is open
\* while the subsystem is not initialized.
C14_NoJoyNoSession ==
    /\ nojoy => /\ ~sdl.init
                /\ ~sys.m_bJoystickInitialized
                /\ sdl.watchers = 0
                /\ Count(out.calls, IsInitCall) = 0
                /\ info.m_pDevice = NULL
                /\ sdl.pads = {}
    /\ ~sys.m_bJoystickInitialized => (info.m_pDevice = NULL /\ sdl.pads = {})

\* C14 witness: started with -nojoy, a gamepad attached, and joy_active then
\* set to that gamepad's id.
C14_PreferredUnderNoJoy ==
    /\ nojoy
    /\ startup.done
    /\ last.op = "joy_active"
    /\ last.id \in Devices
    /\ status[last.id] = "attached"
    /\ kind[last.id] = "pad"

(***************************************************************************)
(* Each trigger sample, checked under SpecTrigger.                         *)
(***************************************************************************)
PostedFor(events, type, code) ==
    Cardinality({i \in 1..Len(events) : events[i].type = type /\ events[i].code = code})

\* What one sample of the fed trigger axis does (9830 is the threshold).
TriggerSampleStep ==
    LET k == IF feed.axis = SDL_GAMEPAD_AXIS_LEFT_TRIGGER
             THEN KEY_XBUTTON_LTRIGGER ELSE KEY_XBUTTON_RTRIGGER
        v == last'.b
        pressed == PostedFor(out'.events, "IE_ButtonPressed", k)
        released == PostedFor(out'.events, "IE_ButtonReleased", k)
    IN /\ v > 9830 => /\ pressed = (IF input.repeats[k] = 0 THEN 1 ELSE 0)
                      /\ released = 0
                      /\ input'.repeats[k] = input.repeats[k] + 1
       /\ v <= 9830 => /\ pressed = 0
                       /\ released = 1
                       /\ input'.repeats[k] = 0

\* In the events of the samples fed so far, a released one lies between any
\* two pressed ones.
ReleasedBetweenPresses ==
    \A i, j \in 1..Len(feed.events) :
        (i < j /\ feed.events[i] = "pressed" /\ feed.events[j] = "pressed")
            => \E m \in (i + 1)..(j - 1) : feed.events[m] = "released"

\* C15: a trigger sample above the threshold posts pressed exactly when the
\* repeat count was 0 and then increments the count; a sample at or below
\* the threshold always posts released and resets the count to 0; so a
\* released event lies between any two pressed events of the button.
C15_TriggerSamples ==
    /\ [][TriggerSampleStep]_vars
    /\ []ReleasedBetweenPresses

\* C15 witness: pressed, a repeat without event, released, released again,
\* and pressed again.
C15_PressedTwice ==
    /\ Len(feed.events) >= 5
    /\ SubSeq(feed.events, Len(feed.events) - 4, Len(feed.events))
          = <<"pressed", "none", "released", "released", "pressed">>

(***************************************************************************)
(* Each accepted axis sample, checked under SpecInput.                     *)
(***************************************************************************)
AnalogEvents(events) ==
    SelectSeq(events, LAMBDA e : e.type = "IE_AnalogValueChanged")

\* What one sample of a mapped axis of the active device does (6553 is the
\* dead zone's limit).
AxisSampleStep ==
    LET code == ControllerAxisToAnalogCode(last'.a)
        v == last'.b
        effective == IF v > -6553 /\ v < 6553 THEN 0 ELSE v
    IN (/\ last'.op = "axis"
        /\ last'.id = info.m_nDeviceId
        /\ code # ANALOG_CODE_INVALID)
          => /\ input'.m_pAnalogValue[code] = effective
             /\ \A c \in AnalogCodes \ {code} :
                    input'.m_pAnalogValue[c] = input.m_pAnalogValue[c]
             /\ AnalogEvents(out'.events) =
                    IF effective # input.m_pAnalogValue[code]
                    THEN <<[type |-> "IE_AnalogValueChanged", code |-> code,
                            value |-> effective]>>
                    ELSE <<>>

\* C16: an accepted axis sample of the active device stores its value after
\* the dead zone as the channel's value, and posts an analog-value-changed
\* event with the channel code and that value if and only if it differs
\* from the value stored before.
C16_StoredAndPostedOnChange == [][AxisSampleStep]_vars

\* C16 witness: the left stick's X axis sampled at the value already stored,
\* which is not 0, and nothing posted.
C16_SameValueAgain ==
    /\ last.op = "axis"
    /\ last.id = info.m_nDeviceId
    /\ last.a = SDL_GAMEPAD_AXIS_LEFTX
    /\ last.b = 20000
    /\ input.m_pAnalogValue["JOY_AXIS_X"] = 20000
    /\ out.events = <<>>

(***************************************************************************)
(* What closing a session does, checked under SpecRumble.                  *)
(***************************************************************************)
\* The entry point that ran last closed the session it started with.
ClosedTheSession ==
    /\ last.pre.info.m_pDevice # NULL
    /\ Count(out.calls, IsCloseGamepad) > 0

\* C17 as claimed: a session closed while rumble is enabled gets a stop
\* command before its haptic actuator is closed.
C17_StopBeforeClose ==
    (ClosedTheSession /\ last.pre.info.m_bRumbleEnabled)
        => \E i, j \in 1..Len(out.calls) :
               /\ i < j
               /\ IsStop(out.calls[i])
               /\ IsCloseHaptic(out.calls[j])

\* C17 amended: closing a session disables input reporting, closes the
\* haptic actuator and closes the device handle, in this order, and issues
\* no stop command, whether rumble is enabled or not; rumbleEnabled is
\* false afterwards.
C17_ClosedWithoutStop ==
    /\ \A g \in 1..Len(out.calls) :
           IsCloseGamepad(out.calls[g])
               => /\ g >= 3
                  /\ IsCloseHaptic(out.calls[g - 1])
                  /\ out.calls[g - 2] = [fn |-> "EnableJoystickInput", arg |-> 0]
    /\ ClosedTheSession
           => /\ Count(out.calls, IsStop) = 0
              /\ info.m_pDevice = NULL => ~info.m_bRumbleEnabled

\* C17 witness: a session on which rumble was enabled got closed.
C17_ClosedWhileRumbling ==
    /\ ClosedTheSession
    /\ last.pre.info.m_bRumbleEnabled
    /\ last.pre.info.m_pHaptic # NULL

(***************************************************************************)
(* Sessions that close and opens that fail, checked under SpecSession: the *)
(* life cycle with gamepads whose handle does not open, every answer of    *)
(* the haptic layer, and rumble calls.                                     *)
(***************************************************************************)
InitSession ==
    /\ ProcessStart
    /\ status = [d \in Devices |-> "fresh"]
    /\ kind \in {k \in Scenarios : \A d \in Devices : k[d] \in {"pad", "nopad"}}
    /\ nojoy = FALSE

NextSession ==
    \/ Initialize(TRUE, "ok")
    \/ Shutdown
    \/ \E d \in Devices, hap \in HapticAnswers : DeviceAttached(d, hap)
    \/ \E d \in Devices : DeviceRemoved(d, "ok")
    \/ \E value \in {NoDevice} \cup Devices : SetJoyActive(value, "ok")
    \/ \E l \in {0, 300} : Rumble(l, 0, 0)

SpecSession == InitSession /\ [][NextSession]_vars

\* The entry point that ran last tried to open a device handle, and no
\* session is open now.
FailedToOpen == out.atOpen # <<>> /\ info.m_pDevice = NULL

ClosedAfterCloseOrFailedOpen ==
    /\ info.m_pDevice = NULL
    /\ ClosedTheSession \/ FailedToOpen

\* C18 as claimed: closed after a close or a failed open, every session field
\* holds its empty value, currentRumbleStrength 0 included.
C18_AllFieldsEmpty ==
    ClosedAfterCloseOrFailedOpen => info = EmptyInfo

\* C18 amended: every session field but currentRumbleStrength holds its
\* empty value; currentRumbleStrength is 0 after InitializeJoysticks and is
\* otherwise what it was before the close or the failed open.
C18_AllButStrengthEmpty ==
    ClosedAfterCloseOrFailedOpen
        => /\ [info EXCEPT !.m_fCurrentRumble = 0] = EmptyInfo
           /\ info.m_fCurrentRumble =
                  IF last.op = "init" THEN 0 ELSE last.pre.info.m_fCurrentRumble

\* C18 witness: a session closed with the strength of its rumble left behind.
C18_StrengthLeftBehind ==
    /\ ClosedAfterCloseOrFailedOpen
    /\ ClosedTheSession
    /\ info.m_fCurrentRumble # 0

HapticFailed(c) ==
    \/ c = [fn |-> "SDL_OpenHapticFromJoystick", arg |-> NULL]
    \/ c.fn = "SDL_InitHapticRumble" /\ c.arg # 0

\* C19: when no attempt of an entry point to open a device handle succeeds,
\* no session is open afterwards, an older one torn down to make room
\* included; when a session is opened and opening or initializing its
\* haptic actuator fails, the session is open with haptic absent and
\* rumbleEnabled false; and on a session with haptic absent a
\* SetXDeviceRumble call changes nothing and issues no haptic command.
C19_FailuresDegrade ==
    /\ (out.atOpen # <<>> /\ \A i \in 1..Len(out.atOpen) : kind[out.atOpen[i].id] # "pad")
          => (info = [EmptyInfo EXCEPT !.m_fCurrentRumble = info.m_fCurrentRumble]
              /\ sdl.pads = {})
    /\ (out.atOpen # <<>> /\ info.m_pDevice # NULL /\ Count(out.calls, HapticFailed) > 0)
          => (info.m_pHaptic = NULL /\ ~info.m_bRumbleEnabled
              /\ info.m_nDeviceId = info.m_pDevice /\ sdl.pads = {info.m_pDevice})
    /\ (info.m_pDevice # NULL /\ info.m_pHaptic = NULL)
          => (~info.m_bRumbleEnabled
              /\ last.op = "rumble"
                    => (info = last.pre.info /\ Count(out.calls, IsHapticCommand) = 0))

\* C19 witness: a rumble call on a session whose haptic actuator did not
\* initialize.
C19_RumbleWithoutHaptic ==
    /\ last.op = "rumble"
    /\ last.a > 0
    /\ cvar.joystick
    /\ info.m_pDevice # NULL
    /\ info.m_pHaptic = NULL
    /\ info.m_pDevice \in sdl.haptics

\* C19 second witness: a session torn down for a device whose handle did
\* not open.
C19_TornDownForNothing ==
    /\ last.pre.info.m_pDevice # NULL
    /\ FailedToOpen
    /\ last.op = "joy_active"

(***************************************************************************)
(* The watcher and the mapping hint, checked under SpecConfig: starts,     *)
(* shutdowns and changes of joy_gamecontroller_config, with or without     *)
(* -nojoy, while gamepads come and go.                                     *)
(***************************************************************************)
InitConfig ==
    /\ ProcessStart
    /\ status = [d \in Devices |-> "fresh"]
    /\ kind = [d \in Devices |-> "pad"]
    /\ nojoy \in BOOLEAN

NextConfig ==
    \/ \E initOk \in BOOLEAN : Initialize(initOk, "ok")
    \/ Shutdown
    \/ \E value \in Mappings, initOk \in BOOLEAN : SetControllerConfig(value, initOk, "ok")
    \/ \E d \in Devices : DeviceAttached(d, "ok")
    \/ \E d \in Devices : DeviceRemoved(d, "ok")

SpecConfig == InitConfig /\ [][NextConfig]_vars

WatcherIffInitialized ==
    /\ sdl.watchers <= 1
    /\ sdl.watchers = 1 <=> sys.m_bJoystickInitialized

IsRestartCall(c) ==
    c.fn \in {"SDL_SetHint", "SDL_InitSubSystem", "SDL_AddEventWatch", "SDL_OpenGamepad"}

\* A change of the hint while initialized, the old or the new value not
\* empty: the watcher is unregistered and the open session, if any, closed
\* before anything of the new start is called, which happens once.
HintChangeStep ==
    (/\ last'.op = "config"
     /\ sys.m_bJoystickInitialized
     /\ cvar.joy_gamecontroller_config # 0 \/ cvar'.joy_gamecontroller_config # 0)
        => LET calls == out'.calls
               restart == {i \in 1..Len(calls) : IsRestartCall(calls[i])}
           IN /\ \E w \in 1..Len(calls) :
                     /\ calls[w].fn = "SDL_DelEventWatch"
                     /\ \A i \in restart : w < i
              /\ info.m_pDevice # NULL
                     => \E g \in 1..Len(calls) :
                            /\ calls[g] = [fn |-> "SDL_CloseGamepad", arg |-> info.m_pDevice]
                            /\ \A i \in restart : g < i
              /\ Cardinality({i \in restart : calls[i].fn = "SDL_InitSubSystem"}) = 1

\* C20: the watcher is registered at most once, and exactly when the
\* subsystem is initialized; a hint change while initialized, with the old
\* or the new hint not empty, closes the open session and unregisters the
\* watcher before it initializes, enumerates and selects again.
C20_WatcherAndHint ==
    /\ []WatcherIffInitialized
    /\ [][HintChangeStep]_vars

\* C20 witness: a hint change found a session open and left one open, the
\* watcher registered once.
C20_RestartedByHint ==
    /\ last.op = "config"
    /\ last.pre.info.m_pDevice # NULL
    /\ info.m_pDevice # NULL
    /\ sdl.watchers = 1
    /\ Count(out.calls, IsCloseGamepad) = 1

(***************************************************************************)
(* The rumble bookkeeping, checked under SpecBookkeeping: rumble calls of  *)
(* every kind while sessions open, close and get replaced, with or without *)
(* haptic actuator, and the "joystick" convar is switched.                 *)
(***************************************************************************)
NextBookkeeping ==
    \/ Initialize(TRUE, "ok")
    \/ Shutdown
    \/ \E d \in Devices, hap \in HapticOkOrNot : DeviceAttached(d, hap)
    \/ \E d \in Devices : DeviceRemoved(d, "ok")
    \/ \E value \in {NoDevice} \cup Devices : SetJoyActive(value, "ok")
    \/ \E l \in {0, 12, 300}, rc \in PlayReturns : Rumble(l, 0, rc)
    \/ \E value \in BOOLEAN : SetJoystickVar(value)

SpecBookkeeping == InitAllPads /\ [][NextBookkeeping]_vars

RumbleEnabledOnlyOnHaptic ==
    info.m_bRumbleEnabled
        => /\ info.m_nDeviceId # NoDevice
           /\ info.m_pDevice # NULL
           /\ info.m_pHaptic # NULL
           /\ info.m_fCurrentRumble >= RumbleEpsilon

StopOnlyWhenEnabled ==
    Count(out.calls, IsStop) > 0
        => /\ last.op = "rumble"
           /\ last.pre.info.m_bRumbleEnabled
           /\ ~info.m_bRumbleEnabled
           /\ info.m_fCurrentRumble = 0
           /\ ~was.stopped

RumbleWithoutHapticStep ==
    (last'.op = "rumble" /\ (info.m_nDeviceId < 0 \/ info.m_pHaptic = NULL))
        => /\ UNCHANGED <<info, sys, cvar, sdl, input, status>>
           /\ out'.calls = <<>>
           /\ out'.events = <<>>

\* C21: rumbleEnabled is true only if a session is open with a haptic
\* actuator present and currentRumbleStrength at least 0.01; a stop command
\* is issued only by a rumble call that found rumbleEnabled true, leaves
\* rumbleEnabled false and the strength 0, and never follows a stop command
\* with no play command in between; a rumble call with no session or no
\* haptic actuator changes nothing.
C21_RumbleBookkeeping ==
    /\ [](RumbleEnabledOnlyOnHaptic /\ StopOnlyWhenEnabled)
    /\ [][RumbleWithoutHapticStep]_vars

\* C21 witness: a stop command issued for a call that asks for a strength,
\* the "joystick" convar being off, on a session that was rumbling.
C21_StoppedWhileSwitchedOff ==
    /\ Count(out.calls, IsStop) > 0
    /\ ~cvar.joystick
    /\ Strength(last.a, last.b) >= RumbleEpsilon
    /\ last.pre.info.m_fCurrentRumble >= RumbleEpsilon

(***************************************************************************)
(* The trigger buttons across sessions, checked under SpecInput.           *)
(***************************************************************************)
\* The notification that ran last, of a device attached, opened the session
\* that is open now.
SessionJustOpened ==
    /\ last.op = "added"
    /\ info.m_pDevice # NULL
    /\ \E i \in 1..Len(out.atOpen) : out.atOpen[i].id = info.m_pDevice

\* A trigger sample above the threshold that is the first notification of a
\* session posts the pressed event of its button.
FirstTriggerSampleStep ==
    (/\ SessionJustOpened
     /\ last'.op = "axis"
     /\ last'.id = info.m_nDeviceId
     /\ AxisButtonCode(last'.a) # BUTTON_CODE_NONE
     /\ last'.b > PressThreshold)
        => PostedFor(out'.events, "IE_ButtonPressed", AxisButtonCode(last'.a)) = 1

\* C22: the trigger button state does not leak across sessions: the first
\* trigger sample above the threshold from the device of a new session
\* posts a pressed event, also when the device of the session before was
\* removed with its trigger held above the threshold.
C22_PressedOnNewSession == [][FirstTriggerSampleStep]_vars

(***************************************************************************)
(* Samples of several axes in a row, checked under SpecAxes: one session   *)
(* open, and up to MaxAxisFeed samples of the left stick's X axis and of   *)
(* the two triggers, each recorded with the number of analog events it     *)
(* posted.                                                                 *)
(***************************************************************************)
FedAxes == {SDL_GAMEPAD_AXIS_LEFTX, SDL_GAMEPAD_AXIS_LEFT_TRIGGER,
            SDL_GAMEPAD_AXIS_RIGHT_TRIGGER}

InitAxes ==
    /\ OneDeviceOpen
    /\ feed = [axis |-> 0, samples |-> <<>>, events |-> <<>>]

\* SDL_EVENT_GAMEPAD_AXIS_MOTION for an axis of the active device.
FeedAxis(axis, value) ==
    /\ Len(feed.samples) < MaxAxisFeed
    /\ LET t == JoystickAxisMotion(S, info.m_nDeviceId, axis, value)
       IN /\ Ran("axis", info.m_nDeviceId, axis, value, t)
          /\ feed' = [feed EXCEPT
                        !.samples = Append(@, [axis |-> axis, value |-> value]),
                        !.events = Append(@, Len(AnalogEvents(t.out.events)))]
    /\ UNCHANGED startup

NextAxes == \E axis \in FedAxes, value \in AxisSamples : FeedAxis(axis, value)

SpecAxes == InitAxes /\ [][NextAxes]_vars

\* The effective value of a raw value (6553 is the dead zone's limit).
Effective(v) == IF v > -6553 /\ v < 6553 THEN 0 ELSE v

\* The sample fed before sample j for which Same(i, j) holds, or 0.
Previous(j, Same(_, _)) ==
    LET before == {i \in 1..(j - 1) : Same(i, j)}
    IN IF before = {} THEN 0 ELSE CHOOSE i \in before : \A k \in before : k <= i

SameAxis(i, j) == feed.samples[i].axis = feed.samples[j].axis

\* The four stick axes have a channel each, the two triggers share one.
IsTrigger(axis) ==
    axis \in {SDL_GAMEPAD_AXIS_LEFT_TRIGGER, SDL_GAMEPAD_AXIS_RIGHT_TRIGGER}

SameChannel(i, j) ==
    \/ SameAxis(i, j)
    \/ IsTrigger(feed.samples[i].axis) /\ IsTrigger(feed.samples[j].axis)

\* C23 as claimed: a sample whose effective value equals that of the
\* previous sample of the same raw axis posts no analog-value-changed
\* event, whatever samples of other axes were delivered in between.
C23_NoRedundantPerAxis ==
    \A j \in 1..Len(feed.samples) :
        LET i == Previous(j, SameAxis)
        IN (i # 0 /\ Effective(feed.samples[i].value) = Effective(feed.samples[j].value))
               => feed.events[j] = 0

\* C23 amended: per analog channel, the two triggers sharing one: a sample
\* whose effective value equals that of the previous sample of the same
\* channel posts no analog-value-changed event, whatever samples of other
\* channels were delivered in between, and one whose effective value
\* differs from it posts one.
C23_NoRedundantPerChannel ==
    \A j \in 1..Len(feed.samples) :
        LET i == Previous(j, SameChannel)
        IN i # 0 =>
               feed.events[j] =
                   IF Effective(feed.samples[i].value) = Effective(feed.samples[j].value)
                   THEN 0 ELSE 1

\* C23 witness: a trigger sample that posts nothing because the other
\* trigger was sampled at the same value, a sample of the stick in between.
C23_OtherTriggerSameValue ==
    \E j \in 1..Len(feed.samples) :
        LET i == Previous(j, SameChannel)
        IN /\ i # 0
           /\ i < j - 1
           /\ ~SameAxis(i, j)
           /\ Effective(feed.samples[j].value) # 0
           /\ Effective(feed.samples[i].value) = Effective(feed.samples[j].value)
           /\ feed.events[j] = 0

(***************************************************************************)
(* The handles the search and the attach probe open, checked under Spec.   *)
(***************************************************************************)
\* C24: when SearchForDevice or JoystickHotplugAdded has returned, every
\* joystick handle opened for probing has been closed: the only device
\* handle open is the gamepad handle of the active session, if any.
C24_NoProbeHandleLeft ==
    /\ sdl.joyRefs = 0
    /\ sdl.pads = IF info.m_pDevice # NULL THEN {info.m_pDevice} ELSE {}

=============================================================================
